---- MODULE Spec2Model ----
(***************************************************************************)
(* Water-quality training backend (backend/app.py, backend/utils.py).      *)
(*                                                                         *)
(* The model has two parts.                                                *)
(*  - The pure functions of the pipeline: preprocess_dataframe (the        *)
(*    Feature Engineer) and the ranking of result records (the Selector).  *)
(*    They are operators; SpecEngineer and SpecSelect apply them to        *)
(*    inputs drawn from bounded sets.                                      *)
(*  - The request handler train_models as a state machine over the model   *)
(*    folder, the results folder and the process-wide training_state.      *)
(*                                                                         *)
(* Data representation.  A dataframe is a sequence of columns, each a      *)
(* record [name, dtype, cells]; column order is the frame's order.  A cell *)
(* is a tagged tuple: <<"nan">>, <<"num", n>> for a number, <<"div", a, b>> *)
(* for the quotient a/b and <<"log1p", a>> for log(1+a), so derived        *)
(* columns are kept exactly.  Files are records; a file that does not      *)
(* exist is the empty sequence where one file is meant (latest_training)   *)
(* and absence from the set where a folder is meant.  The field "run" of   *)
(* an artifact or a run record is the request that wrote it: it is not in  *)
(* the program's data and is only used to tell runs apart when their       *)
(* timestamps (one-second resolution) coincide.                            *)
(***************************************************************************)
EXTENDS Integers, Sequences, FiniteSets, TLC

(***************************************************************************)
(* Bounds of the model.                                                    *)
(***************************************************************************)
\* rows of every modelled table
NumRows == 2
\* at most this many required columns are left out of a generated table
MaxAbsent == 2
\* training requests in one behaviour
MaxRequests == 3
\* values of the clock (seconds)
MaxClock == 2
\* held-out RMSE values of the records handed to the Selector: 1..MaxRmse
MaxRmse == 4

(***************************************************************************)
(* Program constants.                                                      *)
(***************************************************************************)
FEATURES ==
  <<"Temp", "pH", "Conductivity", "Nitrate", "Fecal_Coliform",
    "Total_Coliform", "TDS", "Fluoride">>

TARGET == "WQI"

\* the alias-to-canonical column map (keys transliterated to ASCII)
RENAME_MAP ==
  { <<"Temperature oC", "Temp">>,
    <<"Temperature", "Temp">>,
    <<"Conductivity (umhos/cm)", "Conductivity">>,
    <<"Nitrate N (mg/L)", "Nitrate">>,
    <<"Nitrate", "Nitrate">>,
    <<"Faecal Coliform (MPN/100ml)", "Fecal_Coliform">>,
    <<"Fecal Coliform (MPN/100ml)", "Fecal_Coliform">>,
    <<"Total Coliform (MPN/100ml)", "Total_Coliform">>,
    <<"Total Dissolved Solids (mg/L)", "TDS">>,
    <<"Fluoride (mg/L)", "Fluoride">> }

cols_to_drop ==
  { "State Name", "State", "Location", "Station", "Date",
    "Monitoring Location", "Station Code", "District", "Block",
    "WQI_Classification", "WQI_Class", "WQI_Class_Encoded" }

\* the registry, in the insertion order of build_models
MODELS == <<"Ridge", "SVR", "RandomForest", "GradientBoosting", "XGBoost">>

\* history[-50:]
HistoryCap == 50

(***************************************************************************)
(* Generic helpers.                                                        *)
(***************************************************************************)
Range(s) == { s[i] : i \in DOMAIN s }

Min(a, b) == IF a <= b THEN a ELSE b

\* list concatenation FEATURES + [TARGET]
Required == FEATURES \o <<TARGET>>

\* [c for c in seq if c not in names]
NotIn(seq, names) ==
  LET Test(c) == c \notin names IN SelectSeq(seq, Test)

\* the last n elements of s: s[-n:]
LastN(s, n) ==
  IF Len(s) <= n THEN s ELSE SubSeq(s, Len(s) - n + 1, Len(s))

(***************************************************************************)
(* Cells.                                                                  *)
(***************************************************************************)
NaN == <<"nan">>

Num(n) == <<"num", n>>

Str == <<"str">>

IsNaN(c) == c[1] = "nan"

\* a * b on numbers; NaN propagates
Mul(a, b) == IF IsNaN(a) \/ IsNaN(b) THEN NaN ELSE Num(a[2] * b[2])

\* a / (b + 1), kept as the exact quotient; NaN propagates
RatioPlus1(a, b) ==
  IF IsNaN(a) \/ IsNaN(b) THEN NaN ELSE <<"div", a[2], b[2] + 1>>

\* np.log1p(a), kept symbolically; NaN propagates
Log1p(a) == IF IsNaN(a) THEN NaN ELSE <<"log1p", a[2]>>

(***************************************************************************)
(* Dataframe helpers.                                                      *)
(***************************************************************************)
Names(df) == [i \in DOMAIN df |-> df[i].name]

ColumnSet(df) == { df[i].name : i \in DOMAIN df }

\* df[name], for a label that occurs exactly once
Col(df, name) == df[CHOOSE i \in DOMAIN df : df[i].name = name]

HasDuplicateLabels(df) ==
  \E i, j \in DOMAIN df : i < j /\ df[i].name = df[j].name

\* df.drop(columns=[...]) for every label in names
DropColumns(df, names) ==
  LET Keep(c) == c.name \notin names IN SelectSeq(df, Keep)

\* the values of cells that are not NaN, as a sequence
RECURSIVE Present(_)
Present(cells) ==
  IF cells = <<>> THEN <<>>
  ELSE IF IsNaN(Head(cells)) THEN Present(Tail(cells))
       ELSE <<Head(cells)[2]>> \o Present(Tail(cells))

\* insertion of x into an ascending sequence
RECURSIVE InsertAsc(_, _)
InsertAsc(x, s) ==
  IF s = <<>> THEN <<x>>
  ELSE IF x < Head(s) THEN <<x>> \o s
       ELSE <<Head(s)>> \o InsertAsc(x, Tail(s))

RECURSIVE SortAsc(_)
SortAsc(s) == IF s = <<>> THEN <<>> ELSE InsertAsc(Head(s), SortAsc(Tail(s)))

\* Series.median(): NaN cells are skipped; the median of no value is NaN.
\* (The mean of the two middle values is exact for the even values the
\* modelled tables hold.)
Median(cells) ==
  LET v == SortAsc(Present(cells))
      n == Len(v)
  IN  IF n = 0 THEN NaN
      ELSE IF n % 2 = 1 THEN Num(v[(n + 1) \div 2])
           ELSE Num((v[n \div 2] + v[n \div 2 + 1]) \div 2)

\* Series.fillna(value): a NaN value fills nothing
FillNa(cells, value) ==
  [i \in DOMAIN cells |-> IF IsNaN(cells[i]) THEN value ELSE cells[i]]

\* if df[col].isna().any(): df[col].fillna(df[col].median(), inplace=True)
Impute(c) ==
  IF \E i \in DOMAIN c.cells : IsNaN(c.cells[i])
  THEN [c EXCEPT !.cells = FillNa(c.cells, Median(c.cells))]
  ELSE c

(***************************************************************************)
(* preprocess_dataframe: the Feature Engineer.                             *)
(***************************************************************************)
\* the canonical name of a raw column label
Rename(name) ==
  IF \E m \in RENAME_MAP : m[1] = name
  THEN (CHOOSE m \in RENAME_MAP : m[1] = name)[2]
  ELSE name

\* df.rename(columns=present_map): labels are replaced in place, and two raw
\* labels with the same canonical name become a duplicated label
Renamed(df) == [i \in DOMAIN df |-> [df[i] EXCEPT !.name = Rename(@)]]

\* the block-list loop
DropBlockListed(df) == DropColumns(df, cols_to_drop)

\* the dtype loop, on a frame without duplicated labels
DropNonNumeric(df) ==
  LET Numeric(c) == ~(c.dtype = "object" \/ c.dtype = "string")
  IN  SelectSeq(df, Numeric)

\* missing_cols / missing_cols_with_target, in canonical order
MissingFirstOnly(df, is_training) ==
  LET all == NotIn(IF is_training THEN Required ELSE FEATURES, ColumnSet(df))
  IN  IF all = <<>> THEN <<>> ELSE <<Head(all)>>

\* a check that only training mode makes
MissingTrainingOnly(df, is_training) ==
  IF is_training THEN NotIn(Required, ColumnSet(df)) ELSE <<>>

MissingCols(df, is_training) ==
  NotIn(IF is_training THEN Required ELSE FEATURES, ColumnSet(df))

\* median imputation of the canonical features, and of the target in training
ImputeAll(df, is_training) ==
  [i \in DOMAIN df |->
     IF df[i].name \in Range(FEATURES)
        \/ (is_training /\ df[i].name = TARGET)
     THEN Impute(df[i])
     ELSE df[i]]

\* df[name] = cells: replaces the column when the label exists, else appends
SetColumn(df, name, cells) ==
  IF name \in ColumnSet(df)
  THEN [i \in DOMAIN df |->
          IF df[i].name = name
          THEN [name |-> name, dtype |-> "float64", cells |-> cells]
          ELSE df[i]]
  ELSE Append(df, [name |-> name, dtype |-> "float64", cells |-> cells])

Rows(df) == 1..(IF df = <<>> THEN 0 ELSE Len(df[1].cells))

\* if all(col in df.columns for col in [a, b]): df[name] = op(df[a], df[b])
WithProduct(df, name, a, b) ==
  IF {a, b} \subseteq ColumnSet(df)
  THEN SetColumn(df, name,
         [r \in Rows(df) |-> Mul(Col(df, a).cells[r], Col(df, b).cells[r])])
  ELSE df

WithRatio(df, name, a, b) ==
  IF {a, b} \subseteq ColumnSet(df)
  THEN SetColumn(df, name,
         [r \in Rows(df) |->
            RatioPlus1(Col(df, a).cells[r], Col(df, b).cells[r])])
  ELSE df

WithLog(df, name, a) ==
  IF a \in ColumnSet(df)
  THEN SetColumn(df, name,
         [r \in Rows(df) |-> Log1p(Col(df, a).cells[r])])
  ELSE df

WithSquare(df, name, a) ==
  IF a \in ColumnSet(df)
  THEN SetColumn(df, name,
         [r \in Rows(df) |-> Mul(Col(df, a).cells[r], Col(df, a).cells[r])])
  ELSE df

\* steps 2-4 of the feature engineering, in the order of the code
AddDerived(df) ==
  LET d1 == WithProduct(df, "pH_Temp_interaction", "pH", "Temp")
      d2 == WithRatio(d1, "TDS_Conductivity_ratio", "TDS", "Conductivity")
      d3 == WithRatio(d2, "Coliform_ratio", "Fecal_Coliform", "Total_Coliform")
      d4 == WithLog(d3, "Fecal_Coliform_log", "Fecal_Coliform")
      d5 == WithLog(d4, "Total_Coliform_log", "Total_Coliform")
      d6 == WithLog(d5, "TDS_log", "TDS")
      d7 == WithSquare(d6, "pH_squared", "pH")
  IN  WithSquare(d7, "Temp_squared", "Temp")

Raised(kind, missing) ==
  [error |-> kind, missing |-> missing, df |-> <<>>]

Returned(df) == [error |-> "", missing |-> <<>>, df |-> df]

\* The whole function.  A duplicated label makes df[col] a frame, which has
\* no dtype: the dtype loop raises AttributeError.
preprocess_dataframe(df, is_training) ==
  LET d1 == DropBlockListed(Renamed(df))
      d2 == DropNonNumeric(d1)
      missing == MissingCols(d2, is_training)
  IN  IF HasDuplicateLabels(d1) THEN Raised("AttributeError", <<>>)
      ELSE IF missing # <<>> THEN Raised("MissingColumns", missing)
      ELSE Returned(AddDerived(ImputeAll(d2, is_training)))

(***************************************************************************)
(* Input tables.  A table is given by the raw labels it has (in the order  *)
(* of RawLabels), the labels whose cells are text, and one column with a   *)
(* pattern of missing cells.                                               *)
(***************************************************************************)
RawLabels ==
  <<"State", "Temperature", "Temp", "pH", "Conductivity", "Nitrate",
    "Fecal_Coliform", "Total_Coliform", "TDS", "Fluoride", "WQI", "DO">>

\* the value of row r of the column at position k: an even number
CellValue(k, r) == Num(2 * (k + r))

Table(labels, text, nanCol, mask) ==
  LET In(l) == l \in labels
      s == SelectSeq(RawLabels, In)
      Pos(l) == CHOOSE k \in DOMAIN RawLabels : RawLabels[k] = l
  IN  [i \in DOMAIN s |->
         [name  |-> s[i],
          dtype |-> IF s[i] \in text \/ s[i] = "State"
                    THEN "object" ELSE "float64",
          cells |-> [r \in 1..NumRows |->
                       IF s[i] \in text \/ s[i] = "State" THEN Str
                       ELSE IF s[i] = nanCol /\ mask[r] THEN NaN
                       ELSE CellValue(Pos(s[i]), r)]]]

\* columns beside the required ones: a block-listed text column, an alias of
\* Temp (a duplicate of it when Temp is there too), an unknown numeric column
ExtraLabels == { {}, {"State"}, {"Temperature"}, {"DO"} }

TextColumns == { {}, {"pH"}, {"WQI"} }

NaNColumns == { "pH", "Fluoride", "WQI" }

Tables ==
  { Table((Range(Required) \ absent) \cup extra, text, nanCol, mask) :
      absent \in { a \in SUBSET Range(Required) : Cardinality(a) <= MaxAbsent },
      extra \in ExtraLabels,
      text \in TextColumns,
      nanCol \in NaNColumns,
      mask \in [1..NumRows -> BOOLEAN] }

(***************************************************************************)
(* The Selector: results.sort(key=lambda x: x['test_rmse']); results[0].   *)
(* list.sort is stable: records with equal keys keep their order.          *)
(***************************************************************************)
\* x goes after every record whose key is not greater
RECURSIVE InsertStable(_, _)
InsertStable(sorted, x) ==
  IF sorted = <<>> THEN <<x>>
  ELSE IF Head(sorted).test_rmse <= x.test_rmse
       THEN <<Head(sorted)>> \o InsertStable(Tail(sorted), x)
       ELSE <<x>> \o sorted

\* x goes before the records with an equal key
RECURSIVE InsertBeforeEqual(_, _)
InsertBeforeEqual(sorted, x) ==
  IF sorted = <<>> THEN <<x>>
  ELSE IF Head(sorted).test_rmse < x.test_rmse
       THEN <<Head(sorted)>> \o InsertBeforeEqual(Tail(sorted), x)
       ELSE <<x>> \o sorted

RECURSIVE SortUnstable(_)
SortUnstable(results) ==
  IF results = <<>> THEN <<>>
  ELSE InsertBeforeEqual(SortUnstable(SubSeq(results, 1, Len(results) - 1)),
                         results[Len(results)])

RECURSIVE SortByRmse(_)
SortByRmse(results) ==
  IF results = <<>> THEN <<>>
  ELSE InsertStable(SortByRmse(SubSeq(results, 1, Len(results) - 1)),
                    results[Len(results)])

\* best_model = results[0] of the sorted list
Select(results) == SortByRmse(results)[1]

\* a record that names a file of another second
ModelFilenameStale(name, timestamp) ==
  [name |-> name, timestamp |-> timestamp + 1]

\* f"{name}_model_{timestamp}.pkl"
ModelFilename(name, timestamp) == [name |-> name, timestamp |-> timestamp]

\* the entry results.append({...}) adds for one model
ResultRecord(name, rmse, timestamp) ==
  [model_name |-> name, test_rmse |-> rmse,
   model_file |-> ModelFilename(name, timestamp)]

(***************************************************************************)
(* State.                                                                  *)
(***************************************************************************)
VARIABLES
  arg,                \* the input of the pure function applied
  ret,                \* <<>> before the call, <<result>> after it
  clock,              \* datetime.now(), in seconds
  requests,           \* training requests received so far
  models,             \* MODEL_FOLDER: the artifact files
  summaries,          \* RESULTS_FOLDER: the training_summary_*.json files
  latest,             \* RESULTS_FOLDER: latest_training.json
  history,            \* RESULTS_FOLDER: training_history.json
  latest_prediction,  \* RESULTS_FOLDER: latest_prediction.json
  predictions,        \* RESULTS_FOLDER: the predictions_*.csv files
  training_state,     \* the process-wide status dictionary
  req,                \* per worker: the locals of its train_models call
  succeeded,          \* the runs that returned success, in order
  aborted             \* the runs a fit or predict exception aborted

pureVars == <<arg, ret>>

resultFiles == <<summaries, latest, history, latest_prediction, predictions>>

serverVars ==
  <<clock, requests, models, summaries, latest, history, latest_prediction,
    predictions, training_state, req, succeeded, aborted>>

vars == <<arg, ret, clock, requests, models, summaries, latest, history,
          latest_prediction, predictions, training_state, req, succeeded,
          aborted>>

Workers == {"w1", "w2"}

\* the worker of the specification that serves one request at a time
SeqWorkers == {"w1"}

IdleReq ==
  [pc |-> "idle", run |-> 0, timestamp |-> 0, idx |-> 0, results |-> <<>>,
   code |-> 0, kind |-> "", summary |-> <<>>]

InitServer ==
  /\ clock = 0
  /\ requests = 0
  /\ models = {}
  /\ summaries = {}
  /\ latest = <<>>
  /\ history = <<>>
  /\ latest_prediction = <<>>
  /\ predictions = {}
  /\ training_state =
       [is_training |-> FALSE, progress |-> 0, current_model |-> "",
        models_trained |-> <<>>]
  /\ req = [p \in Workers |-> IdleReq]
  /\ succeeded = <<>>
  /\ aborted = {}

InitPure == arg = <<>> /\ ret = <<>>

(***************************************************************************)
(* The uploaded file of a request.  A filename is the sequence of its      *)
(* parts between dots; <<>> is the empty name.                             *)
(***************************************************************************)
ALLOWED_EXTENSIONS == {"csv"}

Lower(ext) == IF ext = "CSV" THEN "csv" ELSE ext

\* '.' in filename and filename.rsplit('.', 1)[1].lower() in ALLOWED_EXTENSIONS
allowed_file(filename) ==
  Len(filename) >= 2 /\ Lower(filename[Len(filename)]) \in ALLOWED_EXTENSIONS

Uploads ==
  { [present |-> FALSE, filename |-> <<>>],
    [present |-> TRUE, filename |-> <<>>],
    [present |-> TRUE, filename |-> <<"data">>],
    [present |-> TRUE, filename |-> <<"data", "txt">>],
    [present |-> TRUE, filename |-> <<"data", "CSV">>],
    [present |-> TRUE, filename |-> <<"data", "csv">>] }

\* the three checks at the head of train_models: "" when the file passes
FileRejection(file) ==
  IF ~file.present THEN "NoFile"
  ELSE IF file.filename = <<>> THEN "NoFileSelected"
  ELSE IF ~allowed_file(file.filename) THEN "InvalidFileType"
  ELSE ""

(***************************************************************************)
(* The datasets a training request can carry.                              *)
(***************************************************************************)
NoneMissing == [r \in 1..NumRows |-> FALSE]

AllMissing == [r \in 1..NumRows |-> TRUE]

FirstMissing == [r \in 1..NumRows |-> r = 1]

TrainTables ==
  { Table(Range(Required), {}, "pH", NoneMissing),
    Table(Range(Required), {}, "pH", FirstMissing),
    Table(Range(Required), {}, "pH", AllMissing),
    Table(Range(Required) \ {"WQI"}, {}, "pH", NoneMissing),
    Table(Range(Required) \ {"Fluoride"}, {}, "pH", NoneMissing),
    Table(Range(Required) \cup {"Temperature"}, {}, "pH", NoneMissing) }

\* df.select_dtypes(include=[np.number])
NumericFrame(df) ==
  LET IsNumber(c) == c.dtype = "float64" IN SelectSeq(df, IsNumber)

\* the feature columns the Trainer fits on
TrainFeatureCols(numeric_df) ==
  NotIn(Names(numeric_df),
        {TARGET, "WQI_Class", "WQI_Class_Encoded", "WQI_Classification"})

\* ~(X.isna().any(axis=1) | y.isna())
ValidRows(numeric_df) ==
  { r \in Rows(numeric_df) :
      \A i \in DOMAIN numeric_df : ~IsNaN(numeric_df[i].cells[r]) }

\* Lines 313-357 on a dataset: the response the request ends with, or "ok"
\* when it goes on to the training loop.  train_test_split raises when the
\* training part would be empty.
PrepareOutcome(df) ==
  IF TARGET \notin ColumnSet(df)
  THEN [code |-> 400, kind |-> "NoTarget"]
  ELSE LET r == preprocess_dataframe(df, TRUE)
           numeric_df == NumericFrame(r.df)
       IN  IF r.error # "" THEN [code |-> 500, kind |-> r.error]
           ELSE IF TARGET \notin ColumnSet(numeric_df)
                THEN [code |-> 400, kind |-> "TargetNotNumeric"]
           ELSE IF ValidRows(numeric_df) = {}
                THEN [code |-> 400, kind |-> "NoValidRows"]
           ELSE IF Cardinality(ValidRows(numeric_df)) < 2
                THEN [code |-> 500, kind |-> "ValueError"]
           ELSE [code |-> 200, kind |-> "ok"]

(***************************************************************************)
(* File-system and status operations of train_models.                      *)
(***************************************************************************)
\* a purge loop that removes nothing
PurgeKeepsFiles(files) == files

\* for filename in os.listdir(folder): os.remove(filepath)
PurgeFolder(files) == {}

\* an artifact that is never written
WriteArtifactSkipped(files, artifact) == files

\* joblib.dump(best_pipe, model_path): a file of the same name is replaced
WriteArtifact(files, artifact) ==
  { f \in files :
      ~(f.name = artifact.name /\ f.timestamp = artifact.timestamp) }
    \cup {artifact}

\* json.dump(summary, open(training_summary_<timestamp>.json, 'w'))
WriteSummary(files, summary) ==
  { f \in files : f.timestamp # summary.timestamp } \cup {summary}

\* utils.append_to_training_history
append_to_training_history(hist, training_data) ==
  LastN(Append(hist, training_data), HistoryCap)

FileExists(files, filename) ==
  \E f \in files : f.name = filename.name /\ f.timestamp = filename.timestamp

\* the head of one loop iteration
EnterModel(state, idx) ==
  [state EXCEPT !.current_model = MODELS[idx + 1],
                !.progress = (idx * 100) \div Len(MODELS)]

\* an except clause that leaves the flag as it is
ExceptKeepsFlag(state) == state

\* except Exception: training_state['is_training'] = False
ExceptClear(state) == [state EXCEPT !.is_training = FALSE]

\* the two assignments after save_latest_training
FinishState(state) == [state EXCEPT !.is_training = FALSE, !.progress = 100]

\* a return statement of the handler
Reply(r, code, kind) == [r EXCEPT !.pc = "idle", !.code = code, !.kind = kind]

\* an exception swallowed inside the loop: the run goes on with the next model
ExceptContinue(r, kind) ==
  [r EXCEPT !.idx = Min(@ + 1, Len(MODELS)),
            !.pc = IF r.idx + 1 >= Len(MODELS) THEN "finish" ELSE "loop"]

\* except Exception: ... return jsonify({'error': ...}), 500
ExceptReturn(r, kind) == Reply(r, 500, kind)

Quiet == \A p \in Workers : req[p].pc = "idle"

(***************************************************************************)
(* Actions.                                                                *)
(***************************************************************************)
\* a second passes
Tick ==
  /\ clock < MaxClock
  /\ clock' = clock + 1
  /\ UNCHANGED <<arg, ret, requests, models, summaries, latest, history,
                 latest_prediction, predictions, training_state, req,
                 succeeded, aborted>>

\* POST /api/train arrives: the file checks
StartTrain(p) ==
  /\ req[p].pc = "idle"
  /\ requests < MaxRequests
  /\ requests' = requests + 1
  /\ \E file \in Uploads :
       LET r == [IdleReq EXCEPT !.run = requests + 1]
       IN  req' = [req EXCEPT ![p] =
                     IF FileRejection(file) # ""
                     THEN Reply(r, 400, FileRejection(file))
                     ELSE [r EXCEPT !.pc = "purge_models"]]
  /\ UNCHANGED <<arg, ret, clock, models, summaries, latest, history,
                 latest_prediction, predictions, training_state, succeeded,
                 aborted>>

\* the purge loop over MODEL_FOLDER
PurgeModels(p) ==
  /\ req[p].pc = "purge_models"
  /\ models' = PurgeFolder(models)
  /\ req' = [req EXCEPT ![p].pc = "purge_results"]
  /\ UNCHANGED <<arg, ret, clock, requests, summaries, latest, history,
                 latest_prediction, predictions, training_state, succeeded,
                 aborted>>

\* the purge loop over RESULTS_FOLDER
PurgeResults(p) ==
  /\ req[p].pc = "purge_results"
  /\ summaries' = PurgeFolder(summaries)
  /\ predictions' = PurgeFolder(predictions)
  /\ latest' = <<>>
  /\ history' = <<>>
  /\ latest_prediction' = <<>>
  /\ req' = [req EXCEPT ![p].pc = "prepare"]
  /\ UNCHANGED <<arg, ret, clock, requests, models, training_state,
                 succeeded, aborted>>

\* the timestamp, the dataset checks, the split; is_training is set
Prepare(p) ==
  /\ req[p].pc = "prepare"
  /\ \E df \in TrainTables :
       LET out == PrepareOutcome(df)
           r == [req[p] EXCEPT !.timestamp = clock]
       IN  IF out.code = 400
           THEN /\ req' = [req EXCEPT ![p] = Reply(r, 400, out.kind)]
                /\ UNCHANGED training_state
           ELSE IF out.code = 500
           THEN /\ req' = [req EXCEPT ![p] = ExceptReturn(r, out.kind)]
                /\ training_state' = ExceptClear(training_state)
           ELSE /\ req' = [req EXCEPT ![p] = [r EXCEPT !.pc = "loop"]]
                /\ training_state' =
                     [training_state EXCEPT !.is_training = TRUE]
  /\ UNCHANGED <<arg, ret, clock, requests, models, summaries, latest,
                 history, latest_prediction, predictions, succeeded, aborted>>

\* the RMSE values a fit of the training loop can end with
TrainRmses == {1, 2}

\* one iteration of the training loop: the search, the refit and the
\* evaluation either raise or give a held-out RMSE and the artifact
TrainModel(p) ==
  /\ req[p].pc = "loop"
  /\ LET r == req[p]
         name == MODELS[r.idx + 1]
         entered == EnterModel(training_state, r.idx)
     IN  \/ /\ training_state' = ExceptClear(entered)
            /\ req' = [req EXCEPT ![p] = ExceptReturn(r, "TrainingFailure")]
            /\ aborted' = aborted \cup {r.run}
            /\ UNCHANGED models
         \/ /\ \E rmse \in TrainRmses :
                 req' = [req EXCEPT ![p] =
                   [r EXCEPT
                      !.results = Append(@, ResultRecord(name, rmse, r.timestamp)),
                      !.idx = @ + 1,
                      !.pc = IF r.idx + 1 >= Len(MODELS)
                             THEN "finish" ELSE "loop"]]
            /\ models' = WriteArtifact(models,
                 [name |-> name, timestamp |-> r.timestamp, run |-> r.run])
            /\ training_state' =
                 [entered EXCEPT !.models_trained = Append(@, name)]
            /\ UNCHANGED aborted
  /\ UNCHANGED <<arg, ret, clock, requests, summaries, latest, history,
                 latest_prediction, predictions, succeeded>>

\* the ranking, the summary, save_latest_training and the success response;
\* results[0] of an empty list raises IndexError
Finish(p) ==
  /\ req[p].pc = "finish"
  /\ LET r == req[p]
         sorted == SortByRmse(r.results)
         summary == [timestamp |-> r.timestamp,
                     models_trained |-> sorted,
                     best_model |-> Select(r.results).model_name,
                     run |-> r.run]
     IN  IF r.results = <<>>
         THEN /\ training_state' = ExceptClear(training_state)
              /\ req' = [req EXCEPT ![p] = ExceptReturn(r, "IndexError")]
              /\ UNCHANGED <<summaries, latest, history, succeeded>>
         ELSE /\ summaries' = WriteSummary(summaries, summary)
              /\ latest' = <<summary>>
              /\ history' = append_to_training_history(history, summary)
              /\ training_state' = FinishState(training_state)
              /\ req' = [req EXCEPT ![p] =
                           [Reply(r, 200, "success") EXCEPT
                              !.summary = <<summary>>]]
              /\ succeeded' = Append(succeeded, r.run)
  /\ UNCHANGED <<arg, ret, clock, requests, models, latest_prediction,
                 predictions, aborted>>

(***************************************************************************)
(* Spec: the server handling one training request at a time.               *)
(***************************************************************************)
Init == InitPure /\ InitServer

Next ==
  \/ Tick
  \/ \E p \in SeqWorkers :
       \/ Quiet /\ StartTrain(p)
       \/ PurgeModels(p)
       \/ PurgeResults(p)
       \/ Prepare(p)
       \/ TrainModel(p)
       \/ Finish(p)

Spec == Init /\ [][Next]_vars

(***************************************************************************)
(* SpecEngineer: preprocess_dataframe applied to one table of Tables, in   *)
(* training mode (the target is required) or in prediction mode.           *)
(***************************************************************************)
InitEngineer ==
  /\ InitServer
  /\ arg \in { [df |-> t, is_training |-> b] : t \in Tables, b \in BOOLEAN }
  /\ ret = <<>>

EngineerCall ==
  /\ ret = <<>>
  /\ ret' = <<preprocess_dataframe(arg.df, arg.is_training)>>
  /\ UNCHANGED <<arg, clock, requests, models, summaries, latest, history,
                 latest_prediction, predictions, training_state, req,
                 succeeded, aborted>>

NextEngineer == EngineerCall

SpecEngineer == InitEngineer /\ [][NextEngineer]_vars

(***************************************************************************)
(* SpecSelect: the ranking applied to five result records, one per         *)
(* registry entry in registry order, with any RMSE values of 1..MaxRmse.   *)
(***************************************************************************)
InitSelect ==
  /\ InitServer
  /\ arg \in { [i \in DOMAIN MODELS |-> ResultRecord(MODELS[i], v[i], 0)] :
                 v \in [DOMAIN MODELS -> 1..MaxRmse] }
  /\ ret = <<>>

SelectCall ==
  /\ ret = <<>>
  /\ ret' = <<[models_trained |-> SortByRmse(arg),
               best_model |-> Select(arg).model_name]>>
  /\ UNCHANGED <<arg, clock, requests, models, summaries, latest, history,
                 latest_prediction, predictions, training_state, req,
                 succeeded, aborted>>

NextSelect == SelectCall

SpecSelect == InitSelect /\ [][NextSelect]_vars

(***************************************************************************)
(* Claims about the training request, under Spec.                          *)
(***************************************************************************)
\* the runs whose records getHistory() returns, in order
HistoryRuns == [i \in DOMAIN history |-> history[i].run]

\* a worker whose last request has returned with this outcome
ReturnedWith(p, kind) == req[p].pc = "idle" /\ req[p].kind = kind

\* every run record the results folder holds
StoredRecords == summaries \cup Range(latest) \cup Range(history)

\* C1: after n successful sequential training runs getHistory() returns
\* min(n, 50) records, one per run in run order: when the last request has
\* returned success, the history is the last 50 of the successful runs.
C1_HistoryAccumulates ==
  \A p \in SeqWorkers :
    ReturnedWith(p, "success") =>
      HistoryRuns = LastN(succeeded, HistoryCap)

C3_NoArtifactOfAbortedRun ==
  \A p \in SeqWorkers :
    ReturnedWith(p, "TrainingFailure") =>
      \A f \in models : f.run # req[p].run

C5_FlagClearedOnReturn == Quiet => ~training_state.is_training

\* C5 witness: a request that had set the flag has returned through the
\* exception handler, after an earlier request returned success.
C5_Witness ==
  /\ ReturnedWith("w1", "TrainingFailure")
  /\ req["w1"].idx >= 1
  /\ succeeded # <<>>

\* C6: a run that returns success carries exactly five result records, one
\* per registry name, a best_model of the registry, and every model_file it
\* names exists in the model folder.
C6_SuccessfulRunComplete ==
  \A p \in SeqWorkers :
    ReturnedWith(p, "success") =>
      LET s == req[p].summary[1]
          recs == s.models_trained
      IN  /\ Len(recs) = 5
          /\ \A n \in Range(MODELS) :
               Cardinality({ i \in DOMAIN recs : recs[i].model_name = n }) = 1
          /\ s.best_model \in Range(MODELS)
          /\ \A i \in DOMAIN recs : FileExists(models, recs[i].model_file)

\* C6 witness: a successful run has returned after an earlier run was
\* aborted half-way, and its ranking is not the registry order.
C6_Witness ==
  /\ ReturnedWith("w1", "success")
  /\ aborted # {}
  /\ req["w1"].summary[1].best_model = "XGBoost"

(***************************************************************************)
(* Claims about the Selector, under SpecSelect.                            *)
(***************************************************************************)
RegistryIndex(name) == CHOOSE k \in DOMAIN MODELS : MODELS[k] = name

RmseVector(results) == [i \in DOMAIN results |-> results[i].test_rmse]

\* C7: the reported list holds the same records in ascending test-RMSE
\* order, records with equal RMSE in registry order; the selected record is
\* the first of the list, it has the minimum RMSE and is the earliest
\* registry entry with that RMSE.  RMSEs [3.1, 2.9, 4.0, 2.9, 3.5] (ranks
\* 2, 1, 4, 1, 3) select the second registry entry.
C7_SelectStableMin ==
  ret # <<>> =>
    LET out == ret[1].models_trained
        best == ret[1].best_model
    IN  /\ Len(out) = Len(arg)
        /\ Range(out) = Range(arg)
        /\ \A i, j \in DOMAIN out :
             i < j =>
               /\ out[i].test_rmse <= out[j].test_rmse
               /\ out[i].test_rmse = out[j].test_rmse =>
                    RegistryIndex(out[i].model_name)
                      < RegistryIndex(out[j].model_name)
        /\ best = out[1].model_name
        /\ \A k \in DOMAIN arg :
             /\ arg[RegistryIndex(best)].test_rmse <= arg[k].test_rmse
             /\ arg[k].test_rmse = arg[RegistryIndex(best)].test_rmse =>
                  RegistryIndex(best) <= k
        /\ RmseVector(arg) = <<2, 1, 4, 1, 3>> => best = "SVR"

\* C7 witness: the tie of the example has been ranked.
C7_Witness == ret # <<>> /\ RmseVector(arg) = <<2, 1, 4, 1, 3>>

(***************************************************************************)
(* Claims about the Feature Engineer, under SpecEngineer.  They are stated *)
(* on the raw input table, not on the intermediate frames of the code.     *)
(***************************************************************************)
\* the labels a raw table keeps after the renaming and the two drops
LabelsAfterDrops(raw) ==
  { Rename(raw[i].name) :
      i \in { j \in DOMAIN raw :
                /\ Rename(raw[j].name) \notin cols_to_drop
                /\ raw[j].dtype \notin {"object", "string"} } }

\* no two columns of the raw table are renamed to the same label
DistinctLabels(raw) ==
  \A i, j \in DOMAIN raw :
    i # j => Rename(raw[i].name) # Rename(raw[j].name)

RequiredNames(is_training) ==
  IF is_training THEN Range(Required) ELSE Range(FEATURES)

AbsentRequired(raw, is_training) ==
  RequiredNames(is_training) \ LabelsAfterDrops(raw)

CanonicalIndex(name) == CHOOSE k \in DOMAIN Required : Required[k] = name

DerivedNames ==
  { "pH_Temp_interaction", "TDS_Conductivity_ratio", "Coliform_ratio",
    "Fecal_Coliform_log", "Total_Coliform_log", "TDS_log", "pH_squared",
    "Temp_squared" }

\* the derived columns computed from a canonical column
Dependents(name) ==
  CASE name = "pH" -> {"pH_Temp_interaction", "pH_squared"}
    [] name = "Temp" -> {"pH_Temp_interaction", "Temp_squared"}
    [] name = "TDS" -> {"TDS_Conductivity_ratio", "TDS_log"}
    [] name = "Conductivity" -> {"TDS_Conductivity_ratio"}
    [] name = "Fecal_Coliform" -> {"Coliform_ratio", "Fecal_Coliform_log"}
    [] name = "Total_Coliform" -> {"Coliform_ratio", "Total_Coliform_log"}
    [] OTHER -> {}

C9_PartialDesignMatrix ==
  ret # <<>> =>
    \A c \in Range(FEATURES) :
      ( /\ AbsentRequired(arg.df, arg.is_training) = {c}
        /\ DistinctLabels(arg.df) ) =>
        /\ ret[1].error = ""
        /\ ColumnSet(ret[1].df) \cap DerivedNames
             = DerivedNames \ Dependents(c)

\* C9 as amended: on a table that lacks a canonical column engineer returns
\* no design matrix, it fails, with MissingColumns naming every lacking
\* column when the renamed labels are distinct; a design matrix is returned
\* only when all eight canonical columns are present, and it then holds
\* every derived column.
C9_NoPartialDesignMatrix ==
  ret # <<>> =>
    LET out == ret[1]
        lacks == Range(FEATURES) \ LabelsAfterDrops(arg.df)
    IN  /\ lacks # {} => (out.error # "" /\ out.df = <<>>)
        /\ (lacks # {} /\ DistinctLabels(arg.df)) =>
             (out.error = "MissingColumns" /\ lacks \subseteq Range(out.missing))
        /\ out.error = "" =>
             (lacks = {} /\ DerivedNames \subseteq ColumnSet(out.df))

\* C9 witness: prediction mode on a table that lacks only pH.
C9_Witness ==
  /\ ret # <<>>
  /\ ~arg.is_training
  /\ Range(FEATURES) \ LabelsAfterDrops(arg.df) = {"pH"}
  /\ ret[1].error = "MissingColumns"

\* C10: when the eight canonical columns and WQI are present, engineer in
\* training mode returns a table with no missing cell in those nine
\* columns, whatever the pattern of missing cells.
C10_NoMissingAfterEngineer ==
  ( /\ ret # <<>>
    /\ arg.is_training
    /\ AbsentRequired(arg.df, TRUE) = {}
    /\ DistinctLabels(arg.df) ) =>
    /\ ret[1].error = ""
    /\ \A n \in Range(Required) :
         \A r \in Rows(ret[1].df) : ~IsNaN(Col(ret[1].df, n).cells[r])

(***************************************************************************)
(* The feature columns of the Predictor, and SpecFeatures: the Trainer's   *)
(* and the Predictor's column lists for one training table and one         *)
(* prediction table.                                                       *)
(***************************************************************************)
\* any(feat in col for feat in ['interaction', 'ratio', 'log', 'squared']):
\* of the labels of the model, the ones that contain one of the markers
ContainsMarker(col) ==
  col \in { "pH_Temp_interaction", "TDS_Conductivity_ratio", "Coliform_ratio",
            "Fecal_Coliform_log", "Total_Coliform_log", "TDS_log",
            "pH_squared", "Temp_squared" }

\* feature_cols of predict, in the order of df.columns
PredictFeatureCols(df) ==
  LET Keep(col) == col \in Range(FEATURES) \/ ContainsMarker(col)
  IN  SelectSeq(Names(df), Keep)

\* feature_cols of train_models on an accepted dataset
TrainerFeatures(df) ==
  TrainFeatureCols(NumericFrame(preprocess_dataframe(df, TRUE).df))

\* feature_cols of predict on an accepted dataset
PredictorFeatures(df) ==
  PredictFeatureCols(preprocess_dataframe(df, FALSE).df)

\* tables with and without the target, Fluoride, a text column and the
\* columns of ExtraLabels
FeatureTables ==
  { Table((Range(Required) \ absent) \cup extra, text, "pH", NoneMissing) :
      absent \in { {}, {"WQI"}, {"Fluoride"} },
      extra \in ExtraLabels,
      text \in TextColumns }

InitFeatures ==
  /\ InitServer
  /\ arg \in { [train |-> t, predict |-> q] :
                 t \in FeatureTables, q \in FeatureTables }
  /\ ret = <<>>

FeaturesCall ==
  /\ ret = <<>>
  /\ ret' = <<[trained |-> PrepareOutcome(arg.train).code = 200,
               train_cols |->
                 IF PrepareOutcome(arg.train).code = 200
                 THEN TrainerFeatures(arg.train) ELSE <<>>,
               accepted |-> preprocess_dataframe(arg.predict, FALSE).error = "",
               predict_cols |->
                 IF preprocess_dataframe(arg.predict, FALSE).error = ""
                 THEN PredictorFeatures(arg.predict) ELSE <<>>]>>
  /\ UNCHANGED <<clock, requests, models, summaries, latest, history,
                 latest_prediction, predictions, training_state, req,
                 succeeded, aborted, arg>>

NextFeatures == FeaturesCall

SpecFeatures == InitFeatures /\ [][NextFeatures]_vars

\* C11: for a training table the Trainer fits on and a prediction table the
\* engineer accepts, the Predictor's feature-column list is the Trainer's.
C11_SameFeatureColumns ==
  (ret # <<>> /\ ret[1].trained /\ ret[1].accepted) =>
    ret[1].predict_cols = ret[1].train_cols

(***************************************************************************)
(* classify_wqi, and SpecClassify: classify_wqi applied to one value.  A   *)
(* WQI value is an integer count of 1/WqiUnit, so that values strictly     *)
(* between two integers exist.                                             *)
(***************************************************************************)
WqiUnit == 2

MinWqi == 0 - 10

MaxWqi == 110

WqiValues == (MinWqi * WqiUnit)..(MaxWqi * WqiUnit)

ClassifyExclusive(wqi) ==
  IF wqi < 25 * WqiUnit THEN "Excellent"
  ELSE IF wqi < 50 * WqiUnit THEN "Good"
  ELSE IF wqi < 75 * WqiUnit THEN "Poor"
  ELSE IF wqi < 100 * WqiUnit THEN "Very Poor"
  ELSE "Unsuitable for Drinking"

classify_wqi(wqi) ==
  IF wqi <= 25 * WqiUnit THEN "Excellent"
  ELSE IF wqi <= 50 * WqiUnit THEN "Good"
  ELSE IF wqi <= 75 * WqiUnit THEN "Poor"
  ELSE IF wqi <= 100 * WqiUnit THEN "Very Poor"
  ELSE "Unsuitable for Drinking"

InitClassify ==
  /\ InitServer
  /\ arg \in WqiValues
  /\ ret = <<>>

ClassifyCall ==
  /\ ret = <<>>
  /\ ret' = <<classify_wqi(arg)>>
  /\ UNCHANGED <<clock, requests, models, summaries, latest, history,
                 latest_prediction, predictions, training_state, req,
                 succeeded, aborted, arg>>

NextClassify == ClassifyCall

SpecClassify == InitClassify /\ [][NextClassify]_vars

\* the labels from best to worst
LabelRank(label) ==
  CASE label = "Excellent" -> 1
    [] label = "Good" -> 2
    [] label = "Poor" -> 3
    [] label = "Very Poor" -> 4
    [] label = "Unsuitable for Drinking" -> 5

\* the intervals of the five labels
LabelInterval(label) ==
  CASE label = "Excellent" -> { w \in WqiValues : w <= 25 * WqiUnit }
    [] label = "Good" ->
         { w \in WqiValues : 25 * WqiUnit < w /\ w <= 50 * WqiUnit }
    [] label = "Poor" ->
         { w \in WqiValues : 50 * WqiUnit < w /\ w <= 75 * WqiUnit }
    [] label = "Very Poor" ->
         { w \in WqiValues : 75 * WqiUnit < w /\ w <= 100 * WqiUnit }
    [] label = "Unsuitable for Drinking" ->
         { w \in WqiValues : 100 * WqiUnit < w }

WqiLabels ==
  {"Excellent", "Good", "Poor", "Very Poor", "Unsuitable for Drinking"}

\* C15: classify returns the one label whose interval (upper bound
\* inclusive) holds the value, and no smaller value has a worse label.
C15_StepFunction ==
  ret # <<>> =>
    /\ ret[1] \in WqiLabels
    /\ \A label \in WqiLabels : (arg \in LabelInterval(label)) <=> (label = ret[1])
    /\ \A w \in WqiValues :
         w <= arg => LabelRank(classify_wqi(w)) <= LabelRank(ret[1])

C15_Witness ==
  /\ ret # <<>>
  /\ arg = 25 * WqiUnit
  /\ ret[1] = "Excellent"

(***************************************************************************)
(* predict, and SpecPredict: the server handling training and prediction   *)
(* requests one at a time.                                                 *)
(***************************************************************************)
\* f"{name}_model_{timestamp}.pkl", cut at the places where the parts join
ArtifactFileName(f) == <<f.name, "_model_", ToString(f.timestamp), ".pkl">>

\* str.startswith
StartsWith(s, prefix) ==
  /\ Len(prefix) <= Len(s)
  /\ SubSeq(s, 1, Len(prefix)) = prefix

\* str.endswith
EndsWith(s, suffix) ==
  /\ Len(suffix) <= Len(s)
  /\ SubSeq(s, Len(s) - Len(suffix) + 1, Len(s)) = suffix

\* a lookup that takes every artifact of the folder
ModelFilesAnyName(files, model_name) == files

\* model_files: the artifacts of the requested model
ModelFiles(files, model_name) ==
  { f \in files :
      /\ StartsWith(ArtifactFileName(f), model_name \o <<"_model_">>)
      /\ EndsWith(ArtifactFileName(f), <<".pkl">>) }

\* model_files.sort(reverse=True); model_files[0]
MostRecent(model_files) ==
  CHOOSE f \in model_files : \A g \in model_files : g.timestamp <= f.timestamp

\* the model_name form field: the default, a registry name, a name that is
\* itself the head of an artifact name
PredictNames == { <<"XGBoost">>, <<"Ridge">>, <<"Ridge", "_model_", "0">> }

\* the uploads a prediction request can carry
PredictUploads ==
  { file \in Uploads :
      ~file.present \/ file.filename = <<"data", "csv">> }

\* the tables a prediction request can carry
PredictTables ==
  { Table(Range(FEATURES), {}, "pH", FirstMissing),
    Table(Range(FEATURES) \ {"Fluoride"}, {}, "pH", NoneMissing) }

\* the arrays model.predict can give: one value for every row, or values of
\* two classes
PredictedArrays(rows) ==
  { [r \in rows |-> 25 * WqiUnit],
    [r \in rows |-> IF r = 1 THEN 100 * WqiUnit + 1 ELSE 50 * WqiUnit + 1] }

\* df_original with the columns Predicted_WQI and WQI_Class
PredictionRows(predicted) ==
  [r \in DOMAIN predicted |->
     [Predicted_WQI |-> predicted[r], WQI_Class |-> classify_wqi(predicted[r])]]

\* a distribution that only marks the labels that occur
ClassCountsPresence(rows) ==
  [label \in { rows[r].WQI_Class : r \in DOMAIN rows } |-> 1]

\* df_original['WQI_Class'].value_counts().to_dict()
ClassCounts(rows) ==
  [label \in { rows[r].WQI_Class : r \in DOMAIN rows } |->
     Cardinality({ r \in DOMAIN rows : rows[r].WQI_Class = label })]

\* df_original.to_csv(output_path): a file of the same name is replaced
WritePrediction(files, output) ==
  { f \in files :
      ~(f.model_name = output.model_name /\ f.timestamp = output.timestamp) }
    \cup {output}

\* the response of predict; summary holds what the request asked for
PredictReply(code, kind, model_name, valid, loaded) ==
  [IdleReq EXCEPT
     !.code = code, !.kind = kind,
     !.summary = <<[endpoint |-> "predict", model_name |-> model_name,
                    valid |-> valid, loaded |-> loaded]>>]

\* POST /api/predict, from the file checks to the response
Predict(p) ==
  /\ req[p].pc = "idle"
  /\ requests < MaxRequests
  /\ requests' = requests + 1
  /\ \E file \in PredictUploads, model_name \in PredictNames, df \in PredictTables :
       LET r == preprocess_dataframe(df, FALSE)
           model_files == ModelFiles(models, model_name)
       IN  IF FileRejection(file) # ""
           THEN /\ req' = [req EXCEPT ![p] =
                     PredictReply(400, FileRejection(file), model_name, FALSE, <<>>)]
                /\ UNCHANGED <<predictions, latest_prediction>>
           ELSE IF r.error # ""
           THEN /\ req' = [req EXCEPT ![p] =
                     PredictReply(500, r.error, model_name, FALSE, <<>>)]
                /\ UNCHANGED <<predictions, latest_prediction>>
           ELSE IF model_files = {}
           THEN /\ req' = [req EXCEPT ![p] =
                     PredictReply(404, "ModelNotFound", model_name, TRUE, <<>>)]
                /\ UNCHANGED <<predictions, latest_prediction>>
           ELSE \/ /\ req' = [req EXCEPT ![p] =
                        PredictReply(500, "PredictFailure", model_name, TRUE,
                                     <<MostRecent(model_files)>>)]
                   /\ UNCHANGED <<predictions, latest_prediction>>
                \/ \E predicted \in PredictedArrays(Rows(r.df)) :
                     LET rows == PredictionRows(predicted)
                         output_filename ==
                           [model_name |-> model_name, timestamp |-> clock]
                     IN  /\ predictions' = WritePrediction(predictions,
                              [model_name |-> model_name, timestamp |-> clock,
                               rows |-> rows])
                         /\ latest_prediction' =
                              <<[timestamp |-> clock,
                                 model_used |-> model_name,
                                 total_predictions |-> Len(rows),
                                 class_distribution |-> ClassCounts(rows),
                                 output_file |-> output_filename]>>
                         /\ req' = [req EXCEPT ![p] =
                              PredictReply(200, "predicted", model_name, TRUE,
                                           <<MostRecent(model_files)>>)]
  /\ UNCHANGED <<arg, ret, clock, models, summaries, latest, history,
                 training_state, succeeded, aborted>>

NextPredict ==
  \/ Next
  \/ \E p \in SeqWorkers : Quiet /\ Predict(p)

SpecPredict == Init /\ [][NextPredict]_vars

\* the request of worker p has just been answered by predict
PredictAnswered(p) ==
  /\ requests' = requests + 1
  /\ req'[p].pc = "idle"
  /\ req'[p].summary # <<>>
  /\ req'[p].summary[1].endpoint = "predict"

\* the artifact store holds a file <modelName>_model_<timestamp>.pkl
HoldsArtifactOf(model_name) ==
  \E f \in models : model_name = <<f.name>>

\* C12: predict on a valid table answers ModelNotFound exactly when the
\* artifact store holds no file of the requested model; an artifact it loads
\* is one of the requested model; on ModelNotFound no predictions file is
\* written and the latest prediction metadata stay as they were.
C12_ModelNotFoundExact ==
  [][\A p \in Workers :
       (PredictAnswered(p) /\ req'[p].summary[1].valid) =>
         LET answer == req'[p]
             model_name == answer.summary[1].model_name
         IN  /\ (answer.kind = "ModelNotFound") <=> ~HoldsArtifactOf(model_name)
             /\ \A f \in Range(answer.summary[1].loaded) :
                  f \in models /\ <<f.name>> = model_name
             /\ (answer.kind = "ModelNotFound") =>
                  /\ predictions' = predictions
                  /\ latest_prediction' = latest_prediction]_vars

C12_Witness ==
  /\ req["w1"].kind = "ModelNotFound"
  /\ req["w1"].summary[1].model_name = <<"Ridge", "_model_", "0">>
  /\ \E f \in models : f.name = "Ridge" /\ f.timestamp = 0
  /\ latest_prediction # <<>>
  /\ predictions # {}

(***************************************************************************)
(* SpecOverlap: the threaded server, at most MaxOverlap training requests, *)
(* which can be in flight at the same time.                                *)
(***************************************************************************)
MaxOverlap == 2

\* the RMSE values of the fits of overlapping runs
OverlapRmses == {1}

NextOverlap ==
  \/ Tick
  \/ \E p \in Workers :
       \/ requests < MaxOverlap /\ StartTrain(p)
       \/ PurgeModels(p)
       \/ PurgeResults(p)
       \/ Prepare(p)
       \/ /\ TrainModel(p)
          /\ \A i \in DOMAIN req'[p].results :
               req'[p].results[i].test_rmse \in OverlapRmses
       \/ Finish(p)

SpecOverlap == Init /\ [][NextOverlap]_vars

\* C13: no step writes an artifact under a file name that an artifact of
\* another training run in the store already has.
C13_NoArtifactOverwritten ==
  [][\A f \in models, g \in models' :
       ArtifactFileName(f) = ArtifactFileName(g) => f.run = g.run]_vars

(***************************************************************************)
(* SpecRunStore: the run store of utils.py on its own.  arg is the list of *)
(* the records save_latest_training was called with, in call order.        *)
(***************************************************************************)
MaxSaves == 52

\* a history file that is never cut
AppendUncapped(hist, training_data) == Append(hist, training_data)

\* utils.append_to_training_history: 'timestamp' is added when the record
\* has none, the list is cut to its last 50 entries
AppendToHistoryFile(hist, training_data) ==
  append_to_training_history(hist,
    IF "timestamp" \in DOMAIN training_data
    THEN training_data
    ELSE [f \in DOMAIN training_data \cup {"timestamp"} |->
            IF f = "timestamp" THEN clock ELSE training_data[f]])

\* utils.get_training_history: [] when the file does not exist
get_training_history == history

\* utils.get_latest_training: None, here <<>>, when the file does not exist
get_latest_training == latest

InitRunStore ==
  /\ InitServer
  /\ arg = <<>>
  /\ ret = <<>>

\* utils.save_latest_training(training_data) with a training run record
SaveRun ==
  /\ Len(arg) < MaxSaves
  /\ LET training_data == [run |-> Len(arg) + 1, timestamp |-> clock]
     IN  /\ latest' = <<training_data>>
         /\ history' = AppendToHistoryFile(history, training_data)
         /\ arg' = Append(arg, training_data)
  /\ UNCHANGED <<ret, clock, requests, models, summaries, latest_prediction,
                 predictions, training_state, req, succeeded, aborted>>

NextRunStore == Tick \/ SaveRun

SpecRunStore == InitRunStore /\ [][NextRunStore]_vars

\* C14: after n saves the history is the last min(n, 50) saved records in
\* save order (so it never holds more than 50 and the oldest goes first),
\* and the latest record is the last one saved.
C14_HistoryLastFifty ==
  LET n == Len(arg)
      h == get_training_history
  IN  /\ Len(h) = Min(n, 50)
      /\ \A i \in 1..Len(h) : h[i] = arg[n - Len(h) + i]
      /\ n > 0 => get_latest_training = <<arg[n]>>

C14_Witness ==
  /\ Len(arg) = 52
  /\ Len(history) = 50
  /\ history[1] = arg[3]
  /\ history[50] = arg[52]

(***************************************************************************)
(* The MAPE of a result record, and SpecMape: the computation applied to   *)
(* one test split and the predictions for it.  Targets and predictions are *)
(* integer multiples of epsilon; a float result is NaN, infinite, or the   *)
(* quotient num / den with den > 0.                                        *)
(***************************************************************************)
MaxTest == 2

MaxTarget == 3

\* epsilon = 1e-10, the unit the values are counted in
epsilon == 1

TargetValues == (0 - MaxTarget)..MaxTarget

Abs(x) == IF x < 0 THEN 0 - x ELSE x

FloatNaN == [kind |-> "nan", num |-> 0, den |-> 1]

FloatInf == [kind |-> "inf", num |-> 0, den |-> 1]

Quotient(num, den) == [kind |-> "rat", num |-> num, den |-> den]

\* np.abs(x / y) of two floats: 0/0 is NaN, x/0 is infinite
AbsDivide(x, y) ==
  IF y = 0 THEN (IF x = 0 THEN FloatNaN ELSE FloatInf)
  ELSE Quotient(Abs(x), Abs(y))

\* np.abs((y_test - y_pred) / (y_test + epsilon)), element by element
AbsPercentageErrors(y_test, y_pred) ==
  [i \in DOMAIN y_test |-> AbsDivide(y_test[i] - y_pred[i], y_test[i] + epsilon)]

RECURSIVE SumQuotients(_)
SumQuotients(qs) ==
  IF qs = <<>> THEN Quotient(0, 1)
  ELSE LET rest == SumQuotients(Tail(qs))
       IN  Quotient(qs[1].num * rest.den + rest.num * qs[1].den,
                    qs[1].den * rest.den)

\* np.mean of a Series: NaN entries are skipped, the mean of none is NaN
SeriesMean(errors) ==
  LET IsValue(q) == q.kind # "nan"
      IsFinite(q) == q.kind = "rat"
      values == SelectSeq(errors, IsValue)
      total == SumQuotients(values)
  IN  IF values = <<>> THEN FloatNaN
      ELSE IF SelectSeq(values, IsFinite) # values THEN FloatInf
      ELSE Quotient(total.num, total.den * Len(values))

\* mape * 100
TimesHundred(q) ==
  IF q.kind = "rat" THEN Quotient(q.num * 100, q.den) ELSE q

\* min(mape, 100.0): 100.0 when 100.0 < mape, else mape itself
CapAtHundred(q) ==
  IF q.kind = "inf" \/ (q.kind = "rat" /\ 100 * q.den < q.num)
  THEN Quotient(100, 1)
  ELSE q

\* test_mape of a result record
TestMape(y_test, y_pred) ==
  CapAtHundred(TimesHundred(SeriesMean(AbsPercentageErrors(y_test, y_pred))))

\* the test splits of n rows and the predictions for them
TestSplits(n) ==
  [y_test : [1..n -> TargetValues], y_pred : [1..n -> TargetValues]]

InitMape ==
  /\ InitServer
  /\ \E n \in 1..MaxTest : arg \in TestSplits(n)
  /\ ret = <<>>

MapeCall ==
  /\ ret = <<>>
  /\ ret' = <<TestMape(arg.y_test, arg.y_pred)>>
  /\ UNCHANGED <<clock, requests, models, summaries, latest, history,
                 latest_prediction, predictions, training_state, req,
                 succeeded, aborted, arg>>

NextMape == MapeCall

SpecMape == InitMape /\ [][NextMape]_vars

\* C16: test_mape of a non-empty test split is a number from 0 to 100.
C16_MapeInRange ==
  ret # <<>> =>
    /\ ret[1].kind = "rat"
    /\ 0 <= ret[1].num
    /\ ret[1].num <= 100 * ret[1].den

\* the outcomes of a training request rejected for what its dataset holds
ContentRejections == {"NoTarget", "MissingColumns", "NoValidRows"}

\* C17: a training request rejected for the content of its dataset leaves
\* what is persisted as it was: when the request before it was a successful
\* run, the five artifacts of that run, its record as the latest run and
\* its entry at the end of the history are still there when it returns.
C17_RejectionKeepsState ==
  \A p \in SeqWorkers :
    ( /\ req[p].pc = "idle"
      /\ req[p].kind \in ContentRejections
      /\ req[p].run = requests
      /\ succeeded # <<>>
      /\ succeeded[Len(succeeded)] = req[p].run - 1 ) =>
        /\ \A i \in DOMAIN MODELS :
             \E f \in models : f.name = MODELS[i] /\ f.run = req[p].run - 1
        /\ latest # <<>>
        /\ latest[1].run = req[p].run - 1
        /\ history # <<>>
        /\ history[Len(history)].run = req[p].run - 1

\* the artifact files the latest run record names, all in the artifact store
LatestArtifactsExist ==
  \A r \in Range(get_latest_training) :
    \A i \in DOMAIN r.models_trained :
      FileExists(models, r.models_trained[i].model_file)

C19_FlagWhileTraining ==
  (\E p \in Workers : req[p].pc = "loop") => training_state.is_training

\* C20: models_trained never holds a name twice nor more than five names,
\* and when a request has returned success it is the five registry names
\* in registry order.
C20_ModelsTrainedOfOneRun ==
  LET trained == training_state.models_trained
  IN  /\ Len(trained) <= Len(MODELS)
      /\ \A i, j \in DOMAIN trained : trained[i] = trained[j] => i = j
      /\ \A p \in SeqWorkers : ReturnedWith(p, "success") => trained = MODELS

\* the sum of the counts of a class distribution
RECURSIVE SumOfCounts(_, _)
SumOfCounts(class_counts, labels) ==
  IF labels = {} THEN 0
  ELSE LET label == CHOOSE l \in labels : TRUE
       IN  class_counts[label] + SumOfCounts(class_counts, labels \ {label})

\* the predictions file the latest prediction metadata name
LatestOutputFiles ==
  { f \in predictions :
      \E m \in Range(latest_prediction) :
        /\ f.model_name = m.output_file.model_name
        /\ f.timestamp = m.output_file.timestamp }

\* C21: a successful predict on a table of n rows (every table of a
\* prediction request has NumRows rows) reports total_predictions = n,
\* writes n rows that each carry one of the five class labels, and reports
\* class counts that are the counts of the labels of these rows and sum
\* to n.
C21_OnePredictionPerRow ==
  \A m \in Range(latest_prediction) :
    /\ m.total_predictions = NumRows
    /\ DOMAIN m.class_distribution \subseteq WqiLabels
    /\ SumOfCounts(m.class_distribution, DOMAIN m.class_distribution) = NumRows
    /\ LatestOutputFiles # {}
    /\ \A f \in LatestOutputFiles :
         /\ DOMAIN f.rows = 1..NumRows
         /\ \A r \in DOMAIN f.rows :
              /\ f.rows[r].WQI_Class \in WqiLabels
              /\ f.rows[r].Predicted_WQI \in LabelInterval(f.rows[r].WQI_Class)
         /\ \A label \in WqiLabels :
              Cardinality({ r \in DOMAIN f.rows : f.rows[r].WQI_Class = label }) =
                IF label \in DOMAIN m.class_distribution
                THEN m.class_distribution[label] ELSE 0

C21_Witness ==
  /\ req["w1"].pc = "idle"
  /\ req["w1"].kind = "predicted"
  /\ latest_prediction # <<>>
  /\ DOMAIN latest_prediction[1].class_distribution = {"Excellent"}
  /\ latest_prediction[1].class_distribution["Excellent"] = NumRows

====
